---- MODULE Spec2Model ----
(***************************************************************************)
(* Multi-layer time-scaling coordinator of the Slooow browser extension.   *)
(*                                                                         *)
(*   Layer 3  inject.ts   virtual-clock scheduler (requestAnimationFrame   *)
(*                        patch) and its window-message listener           *)
(*   Layer 1  waapi.ts    declarative-animation rate store                 *)
(*   Layer 2  gsap.ts     third-party engine adapter                       *)
(*                                                                         *)
(* Numbers.  The program computes with JavaScript doubles.  The model      *)
(* computes exactly, in fixed point: a speed, a playback rate or a time    *)
(* scale x is held as the integer x * Den, real timestamps are whole       *)
(* milliseconds, and a timestamp handed to a frame callback is held as     *)
(* milliseconds * Den.  Rounding of doubles is outside the model.          *)
(***************************************************************************)
EXTENDS Integers, Sequences, FiniteSets

VARIABLES
    \* ---- Layer 3, MAIN world (inject.ts) ----
    speedFactor,      \* let speedFactor            (x Den)
    lastRealTime,     \* let lastRealTime: number | null   (ms)
    virtualTime,      \* let virtualTime: number | null    (ms x Den)
    inbox,            \* window 'message' events posted and not yet dispatched
    now,              \* the host's frame clock (ms)
    delivered,        \* the timestamp last handed to a frame callback (ms x Den)
    pageKnowsToken,   \* the hosted page's script has read the session token
    \* ---- history of Layer 3, for stating the properties ----
    sinceSet,         \* frames delivered since the last accepted SET_SPEED (3: more, or none accepted)
    seedReal,         \* real timestamp of the frame that seeded the anchors
    clamped,          \* some frame since the seed had a real delta > MAX_DELTA
    \* ---- Layer 1, ISOLATED world (waapi.ts) ----
    playbackRate,     \* Animation.playbackRate of every animation object (x Den)
    originalRates,    \* const originalRates = new WeakMap<Animation, number>()
    liveAnims,        \* what document.getAnimations() returns
    firstRate,        \* history: the rate an object had when its entry was made
    \* ---- Layer 2, ISOLATED world (gsap.ts) ----
    gsapTL,           \* window.gsap.globalTimeline's timeScale, or Null
    tweenMaxTL,       \* window.TweenMax.globalTimeline's timeScale, or Null
    originalGSAPTimeScale, \* let originalGSAPTimeScale: number | null
    firstScale,       \* history: the time scale read when the baseline was taken
    \* ---- the coordinator, ISOLATED world (index.tsx, waapi.ts, gsap.ts) ----
    toolbarMounted,   \* ui.mount() ran
    currentSpeed,     \* let currentSpeed: number | null   (x Den, or Null)
    gsapDetected,     \* let gsapDetected
    observing,        \* _observer observes document.documentElement
    observerEnabled,  \* let observerEnabled
    pendingRAF,       \* let pendingRAF
    scheduledFlushes, \* frame callbacks the observer requested and the host has not run
    pollInterval,     \* let pollInterval: the interval timer is set
    elapsed,          \* let elapsed of startGSAPPolling (time units)
    polls,            \* history: timer callbacks run since polling started
    startSpeed,       \* history: currentSpeed when startGSAPPolling was called
    \* ---- installation of Layer 3 in one browsing context (inject.ts main) ----
    isTop,            \* window === window.top
    slooowPatched,    \* window.__slooowPatched
    rafWraps,         \* how many slooowRAF wrappers window.requestAnimationFrame carries
    listeners,        \* 'message' listeners main() added
    tokensMade,       \* session tokens generated
    reportsSent,      \* status reports posted
    \* ---- the last operation and what it did ----
    ev

clockVars == <<speedFactor, lastRealTime, virtualTime, inbox, now, delivered,
               pageKnowsToken, sinceSet, seedReal, clamped>>
waapiVars == <<playbackRate, originalRates, liveAnims, firstRate>>
gsapVars  == <<gsapTL, tweenMaxTL, originalGSAPTimeScale, firstScale>>
observerVars == <<observing, observerEnabled, pendingRAF, scheduledFlushes>>
pollVars  == <<pollInterval, elapsed, polls, startSpeed>>
coordVars == <<toolbarMounted, currentSpeed, gsapDetected, observerVars, pollVars>>
injectVars == <<isTop, slooowPatched, rafWraps, listeners, tokensMade, reportsSent>>
vars      == <<clockVars, waapiVars, gsapVars, coordVars, injectVars, ev>>

----------------------------------------------------------------------------
(* Numbers and bounds *)

\* The fixed-point denominator: every speed of SLOOOW_SPEEDS times Den is whole.
Den == 20

\* null of a `number | null`
Null == -1

\* export const SLOOOW_SPEEDS: SlooowSpeed[] = [1, 0.5, 0.25, 0.1]
SLOOOW_SPEEDS == {20, 10, 5, 2}

\* the speed 1 (pass-through; also what "disabled" forwards)
One == Den

\* const MAX_DELTA = 100 // ms
MAX_DELTA == 100

\* The real time the model runs for (ms).
MaxTime == 250

\* Real time between two intercepted callbacks: 0 is a second callback of the
\* same host frame; 150 is a gap longer than MAX_DELTA (a backgrounded tab).
FrameDeltas == {0, 50, 100, 150}

\* Messages posted and not yet dispatched.
MaxInbox == 1

Min(a, b) == IF a < b THEN a ELSE b

----------------------------------------------------------------------------
(* Layer 3: the window-message bridge (inject.ts) *)

\* export const SLOOOW_TAG = '__slooow__'
SLOOOW_TAG == "__slooow__"

\* const SESSION_TOKEN = Math.random().toString(36).slice(2)
SESSION_TOKEN == "session"

\* A message event: e.source, whether e.data is truthy, and e.data's fields.
\* `origin` is history: who posted it.
Msg(source, data, tag, token, type, speed, origin) ==
    [source |-> source, data |-> data, tag |-> tag, token |-> token,
     type |-> type, speed |-> speed, origin |-> origin]

\* window.postMessage({tag, type: 'SLOOOW_STATUS_REPORT', token: SESSION_TOKEN, ...}, '*')
StatusReport ==
    Msg("window", TRUE, SLOOOW_TAG, SESSION_TOKEN, "SLOOOW_STATUS_REPORT", 0, "inject")

\* The three early returns of the listener:
\*   if (e.source !== window) return
\*   if (!d || d.tag !== '__slooow__') return
\*   if (d.token !== SESSION_TOKEN) return
Accepts_NoTokenCheck(m) ==
    /\ m.source = "window"
    /\ m.data
    /\ m.tag = SLOOOW_TAG

Accepts(m) ==
    /\ m.source = "window"
    /\ m.data
    /\ m.tag = SLOOOW_TAG
    /\ m.token = SESSION_TOKEN

\* if (d.type === 'SET_SPEED')
IsSetSpeed(m) == m.type = "SET_SPEED"

\* bridge.ts getToken(): (window as any).__slooowToken ?? ''
\* The property is there once main() of inject.ts has generated the token.
GetToken_Session == SESSION_TOKEN

GetToken == IF tokensMade > 0 THEN SESSION_TOKEN ELSE ""

\* bridge.ts sendSetSpeed(speed), called in the extension's isolated world:
\* the token is the one read from window.__slooowToken at that time.
PostSetSpeed(speed) ==
    inbox' = Append(inbox,
        Msg("window", TRUE, SLOOOW_TAG, GetToken, "SET_SPEED", speed, "bridge"))

\* sendSetSpeed(speed) on its own.
SendSetSpeed(speed) ==
    /\ Len(inbox) < MaxInbox
    /\ PostSetSpeed(speed)
    /\ ev' = [op |-> "send"]
    /\ UNCHANGED <<speedFactor, lastRealTime, virtualTime, now, delivered,
                   pageKnowsToken, sinceSet, seedReal, clamped>>
    /\ UNCHANGED <<waapiVars, gsapVars, coordVars, injectVars>>

\* The hosted page's script runs in the MAIN world, where inject.ts set
\*   (window as any).__slooowToken = SESSION_TOKEN
\* and where the status report is broadcast with target origin '*'.
PageReadsToken ==
    /\ ~pageKnowsToken
    /\ pageKnowsToken' = TRUE
    /\ ev' = [op |-> "read"]
    /\ UNCHANGED <<speedFactor, lastRealTime, virtualTime, inbox, now, delivered,
                   sinceSet, seedReal, clamped>>
    /\ UNCHANGED <<waapiVars, gsapVars, coordVars, injectVars>>

\* The tokens a page script can put in a message: guesses, and the session
\* token once it has read it.
PageTokens == {"forgery", ""} \cup (IF pageKnowsToken THEN {SESSION_TOKEN} ELSE {})

\* The page's script posts a message of its choice to its own window.
PagePostsMessage(tag, token, type, speed) ==
    /\ Len(inbox) < MaxInbox
    /\ token \in PageTokens
    /\ inbox' = Append(inbox, Msg("window", TRUE, tag, token, type, speed, "page"))
    /\ ev' = [op |-> "post"]
    /\ UNCHANGED <<speedFactor, lastRealTime, virtualTime, now, delivered,
                   pageKnowsToken, sinceSet, seedReal, clamped>>
    /\ UNCHANGED <<waapiVars, gsapVars, coordVars, injectVars>>

\* The page's script posts a message whose data is null (!d).
PagePostsNull ==
    /\ Len(inbox) < MaxInbox
    /\ inbox' = Append(inbox, Msg("window", FALSE, "", "", "", 0, "page"))
    /\ ev' = [op |-> "post"]
    /\ UNCHANGED <<speedFactor, lastRealTime, virtualTime, now, delivered,
                   pageKnowsToken, sinceSet, seedReal, clamped>>
    /\ UNCHANGED <<waapiVars, gsapVars, coordVars, injectVars>>

\* A nested frame (or another window) posts a message to this window: e.source
\* is that frame.  It may carry any token, the session token included.
FramePostsMessage(token, speed) ==
    /\ Len(inbox) < MaxInbox
    /\ inbox' = Append(inbox,
           Msg("iframe", TRUE, SLOOOW_TAG, token, "SET_SPEED", speed, "iframe"))
    /\ ev' = [op |-> "post"]
    /\ UNCHANGED <<speedFactor, lastRealTime, virtualTime, now, delivered,
                   pageKnowsToken, sinceSet, seedReal, clamped>>
    /\ UNCHANGED <<waapiVars, gsapVars, coordVars, injectVars>>

\* The oldest undelivered message is dispatched in a window where inject.ts
\* added no listener: nothing handles it.
DropMessage ==
    /\ listeners = 0
    /\ inbox # <<>>
    /\ inbox' = Tail(inbox)
    /\ ev' = [op |-> "drop", msg |-> Head(inbox)]
    /\ UNCHANGED <<speedFactor, lastRealTime, virtualTime, now, delivered,
                   pageKnowsToken, sinceSet, seedReal, clamped>>
    /\ UNCHANGED <<waapiVars, gsapVars, coordVars, injectVars>>

\* window.addEventListener('message', (e) => {...}) of inject.ts, on the
\* oldest undelivered message.
HandleMessage ==
    /\ inbox # <<>>
    /\ LET m == Head(inbox)
           set == Accepts(m) /\ IsSetSpeed(m)
       IN  /\ inbox' = Tail(inbox)
           /\ IF set
                THEN /\ speedFactor' = m.speed
                     /\ lastRealTime' = Null
                     /\ virtualTime' = Null
                     /\ sinceSet' = 0
                     /\ seedReal' = Null
                     /\ clamped' = FALSE
                ELSE UNCHANGED <<speedFactor, lastRealTime, virtualTime,
                                 sinceSet, seedReal, clamped>>
           /\ ev' = [op |-> "msg", msg |-> m, set |-> set,
                     speedBefore |-> speedFactor]
    /\ UNCHANGED <<now, delivered, pageKnowsToken>>
    /\ UNCHANGED <<waapiVars, gsapVars, coordVars, injectVars>>

----------------------------------------------------------------------------
(* Layer 3: the virtual clock (inject.ts, slooowRAF) *)

\* if (speedFactor === 1) { callback(realTimestamp); return }
PassThrough_Never(sf) == FALSE

PassThrough(sf) == sf = One

\* const delta = Math.min(realTimestamp - lastRealTime, MAX_DELTA)
ClampDelta_NoClamp(realTimestamp, last) == realTimestamp - last

ClampDelta_Max(realTimestamp, last) ==
    IF realTimestamp - last > MAX_DELTA THEN realTimestamp - last ELSE MAX_DELTA

ClampDelta(realTimestamp, last) == Min(realTimestamp - last, MAX_DELTA)

\* delta * speedFactor   (ms x Den)
Scaled_Unscaled(delta, sf) == delta * Den

Scaled_Inverse(delta, sf) == (delta * Den * Den) \div sf

Scaled(delta, sf) == delta * sf

\* if (lastRealTime === null) { ...; virtualTime = realTimestamp }   (ms x Den)
SeedVirtual_Zero(realTimestamp) == 0

SeedVirtual(realTimestamp) == realTimestamp * Den

\* lastRealTime after the speedFactor === 1 branch, which assigns nothing
AnchorAfterPass_Tracked(anchor, realTimestamp) == realTimestamp

AnchorAfterPass(anchor, realTimestamp) == anchor

\* The callback slooowRAF hands to the original requestAnimationFrame, run by
\* the host d ms after the previous one with realTimestamp = now + d.  The
\* callbacks of one host frame run back to back with the same timestamp
\* (d = 0); no message is dispatched between them.
Frame(d) ==
    /\ now + d <= MaxTime
    /\ d = 0 => ev.op = "frame"
    /\ now' = now + d
    /\ LET realTimestamp == now + d
           seeded == lastRealTime # Null
           last0  == IF seeded THEN lastRealTime ELSE realTimestamp
           vt0    == IF seeded THEN virtualTime ELSE SeedVirtual(realTimestamp)
           delta  == ClampDelta(realTimestamp, last0)
           vt1    == vt0 + Scaled(delta, speedFactor)
       IN  IF PassThrough(speedFactor)
             THEN /\ delivered' = realTimestamp * Den
                  /\ lastRealTime' = AnchorAfterPass(lastRealTime, realTimestamp)
                  /\ UNCHANGED <<virtualTime, seedReal, clamped>>
                  /\ ev' = [op |-> "frame", path |-> "pass", d |-> d,
                            speed |-> speedFactor,
                            hadPrev |-> delivered # Null,
                            vdelta |-> realTimestamp * Den - delivered,
                            anchorsBefore |-> <<lastRealTime, virtualTime>>]
             ELSE /\ lastRealTime' = realTimestamp
                  /\ virtualTime' = vt1
                  /\ delivered' = vt1
                  /\ seedReal' = IF seeded THEN seedReal ELSE realTimestamp
                  /\ clamped' = (seeded /\ (clamped \/ d > MAX_DELTA))
                  /\ ev' = [op |-> "frame",
                            path |-> IF seeded THEN "scaled" ELSE "seed", d |-> d,
                            speed |-> speedFactor,
                            hadPrev |-> delivered # Null,
                            vdelta |-> vt1 - delivered,
                            anchorsBefore |-> <<lastRealTime, virtualTime>>]
    /\ sinceSet' = Min(sinceSet + 1, 3)
    /\ UNCHANGED <<speedFactor, inbox, pageKnowsToken>>
    /\ UNCHANGED <<waapiVars, gsapVars, coordVars, injectVars>>

\* After main() of inject.ts ran in the top frame: speedFactor = 1, anchors
\* null, the status report posted.
InitClock ==
    /\ speedFactor = One
    /\ lastRealTime = Null
    /\ virtualTime = Null
    /\ inbox = <<StatusReport>>
    /\ now = 0
    /\ delivered = Null
    /\ pageKnowsToken = FALSE
    /\ sinceSet = 3
    /\ seedReal = Null
    /\ clamped = FALSE

----------------------------------------------------------------------------
(* Layer 1: the declarative-animation rate store (waapi.ts) *)

\* The animation objects of the page (object identity).
Anims == {"a1", "a2"}

\* The rates the page itself gives an animation (1, 2 and 3).
PageRates == {20, 40, 60}

\* x * speed, for a rate or time scale x; exact for the page's own rates.
Mul(x, speed) == (x * speed) \div Den

\* if (!originalRates.has(a)) originalRates.set(a, a.playbackRate)
\* and then originalRates.get(a)!
CaptureRate_Always(entry, rate) == rate

CaptureRate(entry, rate) == IF entry = Null THEN rate ELSE entry

\* resetWAAPI, per target: if (originalRates.has(a)) a.playbackRate = originalRates.get(a)!
RestoredRate_DefaultOne(entry, rate) == IF entry # Null THEN entry ELSE One

RestoredRate(entry, rate) == IF entry # Null THEN entry ELSE rate

\* resetWAAPI, per target: originalRates.delete(a)
EntryAfterReset_Kept(entry) == entry

EntryAfterReset(entry) == Null

\* applyWAAPI(speed, animations): the forEach over the targets.
ApplyWAAPIEffect(speed, targets) ==
    /\ originalRates' = [a \in Anims |->
           IF a \in targets THEN CaptureRate(originalRates[a], playbackRate[a])
                            ELSE originalRates[a]]
    /\ playbackRate' = [a \in Anims |->
           IF a \in targets
             THEN Mul(CaptureRate(originalRates[a], playbackRate[a]), speed)
             ELSE playbackRate[a]]
    /\ firstRate' = [a \in Anims |->
           IF a \in targets /\ originalRates[a] = Null THEN playbackRate[a]
                                                       ELSE firstRate[a]]

\* applyWAAPI called on its own.
ApplyWAAPI(speed, targets, how) ==
    /\ ApplyWAAPIEffect(speed, targets)
    /\ ev' = [op |-> "applyWAAPI", how |-> how, speed |-> speed, targets |-> targets,
              fresh |-> {a \in targets : originalRates[a] = Null},
              rateBefore |-> playbackRate]
    /\ UNCHANGED liveAnims
    /\ UNCHANGED <<clockVars, gsapVars, coordVars, injectVars>>

\* resetWAAPI(animations): the forEach over the targets.
ResetWAAPIEffect(targets) ==
    /\ playbackRate' = [a \in Anims |->
           IF a \in targets THEN RestoredRate(originalRates[a], playbackRate[a])
                            ELSE playbackRate[a]]
    /\ originalRates' = [a \in Anims |->
           IF a \in targets /\ originalRates[a] # Null
             THEN EntryAfterReset(originalRates[a])
             ELSE originalRates[a]]
    /\ firstRate' = [a \in Anims |->
           IF a \in targets /\ originalRates[a] # Null THEN Null ELSE firstRate[a]]

\* resetWAAPI called on its own.
ResetWAAPI(targets, how) ==
    /\ ResetWAAPIEffect(targets)
    /\ ev' = [op |-> "resetWAAPI", how |-> how, targets |-> targets,
              tracked |-> {a \in targets : originalRates[a] # Null},
              first |-> firstRate,
              rateBefore |-> playbackRate]
    /\ UNCHANGED liveAnims
    /\ UNCHANGED <<clockVars, gsapVars, coordVars, injectVars>>

\* applyWAAPI(speed, [..]) with an explicit list of animations
ApplyWAAPIList(speed, targets) == ApplyWAAPI(speed, targets, "list")

\* applyWAAPI(speed): const targets = animations ?? document.getAnimations()
ApplyWAAPIDocument(speed) == ApplyWAAPI(speed, liveAnims, "document")

\* resetWAAPI([..]) with an explicit list of animations
ResetWAAPIList(targets) == ResetWAAPI(targets, "list")

\* resetWAAPI(): const targets = animations ?? document.getAnimations()
ResetWAAPIDocument == ResetWAAPI(liveAnims, "document")

\* The page sets an animation's playbackRate itself (an external mutation).
PageSetsRate(a, r) ==
    /\ playbackRate[a] # r
    /\ playbackRate' = [playbackRate EXCEPT ![a] = r]
    /\ ev' = [op |-> "pageRate", anim |-> a]
    /\ UNCHANGED <<originalRates, liveAnims, firstRate>>
    /\ UNCHANGED <<clockVars, gsapVars, coordVars, injectVars>>

\* An animation starts or ends: document.getAnimations() gains or loses it.
PageTogglesAnimation(a) ==
    /\ liveAnims' = IF a \in liveAnims THEN liveAnims \ {a} ELSE liveAnims \cup {a}
    /\ ev' = [op |-> "pageAnim", anim |-> a]
    /\ UNCHANGED <<playbackRate, originalRates, firstRate>>
    /\ UNCHANGED <<clockVars, gsapVars, coordVars, injectVars>>

\* The module as loaded: an empty WeakMap; the page's animations at their
\* own rates.
InitWAAPI ==
    /\ playbackRate \in [Anims -> {20, 40}]
    /\ originalRates = [a \in Anims |-> Null]
    /\ liveAnims = Anims
    /\ firstRate = [a \in Anims |-> Null]

----------------------------------------------------------------------------
(* Layer 2: the engine adapter (gsap.ts) *)

\* The time scales the page itself gives the engine's global timeline (1 and 2).
PageScales == {20, 40}

\* getGSAPTimeline(): gsap?.globalTimeline ?? TweenMax?.globalTimeline ?? null
GetGSAPTimeline ==
    IF gsapTL # Null THEN "gsap"
    ELSE IF tweenMaxTL # Null THEN "TweenMax"
    ELSE "null"

\* detectGSAP(): getGSAPTimeline() !== null
DetectGSAP == GetGSAPTimeline # "null"

\* tl.timeScale() of the timeline getGSAPTimeline() returns
TimeScale ==
    IF gsapTL # Null THEN gsapTL ELSE tweenMaxTL

\* if (originalGSAPTimeScale === null) originalGSAPTimeScale = tl.timeScale()
CaptureScale_Always(baseline, scale) == scale

CaptureScale(baseline, scale) == IF baseline = Null THEN scale ELSE baseline

\* tl.timeScale(x) on the timeline getGSAPTimeline() returns
WriteTimeScale(x) ==
    IF gsapTL # Null
      THEN gsapTL' = x /\ UNCHANGED tweenMaxTL
      ELSE tweenMaxTL' = x /\ UNCHANGED gsapTL

\* applyGSAP(speed): const tl = getGSAPTimeline(); if (!tl) return false; ...
\* return true.  The value returned is DetectGSAP of the state it ran in.
ApplyGSAPEffect(speed) ==
    IF ~DetectGSAP
      THEN UNCHANGED <<gsapTL, tweenMaxTL, originalGSAPTimeScale, firstScale>>
      ELSE /\ originalGSAPTimeScale' = CaptureScale(originalGSAPTimeScale, TimeScale)
           /\ WriteTimeScale(Mul(CaptureScale(originalGSAPTimeScale, TimeScale), speed))
           /\ firstScale' = IF originalGSAPTimeScale = Null THEN TimeScale
                                                            ELSE firstScale

\* applyGSAP called on its own.
ApplyGSAP(speed) ==
    /\ ApplyGSAPEffect(speed)
    /\ ev' = IF ~DetectGSAP
               THEN [op |-> "applyGSAP", result |-> FALSE, speed |-> speed]
               ELSE [op |-> "applyGSAP", result |-> TRUE, speed |-> speed,
                     fresh |-> originalGSAPTimeScale = Null,
                     scaleBefore |-> TimeScale]
    /\ UNCHANGED <<clockVars, waapiVars, coordVars, injectVars>>

\* resetGSAP: the argument of getGSAPTimeline()?.timeScale(originalGSAPTimeScale)
RestoredScale_One(baseline) == One

RestoredScale(baseline) == baseline

\* resetGSAP: originalGSAPTimeScale = null, whether or not a timeline was there
BaselineAfterReset_KeptIfGone(reachable, baseline) ==
    IF reachable THEN Null ELSE baseline

BaselineAfterReset(reachable, baseline) == Null

\* resetGSAP()
ResetGSAPEffect ==
    IF originalGSAPTimeScale = Null
      THEN UNCHANGED <<gsapTL, tweenMaxTL, originalGSAPTimeScale, firstScale>>
      ELSE /\ IF DetectGSAP THEN WriteTimeScale(RestoredScale(originalGSAPTimeScale))
                            ELSE UNCHANGED <<gsapTL, tweenMaxTL>>
           /\ originalGSAPTimeScale' = BaselineAfterReset(DetectGSAP, originalGSAPTimeScale)
           /\ firstScale' = Null

\* resetGSAP called on its own.
ResetGSAP ==
    /\ ResetGSAPEffect
    /\ ev' = [op |-> "resetGSAP", had |-> originalGSAPTimeScale # Null,
              reachable |-> DetectGSAP, baseline |-> originalGSAPTimeScale,
              first |-> firstScale, scaleBefore |-> <<gsapTL, tweenMaxTL>>]
    /\ UNCHANGED <<clockVars, waapiVars, coordVars, injectVars>>

\* The page loads the engine (v3: window.gsap) with its own time scale.
PageLoadsGSAP(r) ==
    /\ gsapTL = Null
    /\ gsapTL' = r
    /\ ev' = [op |-> "pageEngine"]
    /\ UNCHANGED <<tweenMaxTL, originalGSAPTimeScale, firstScale>>
    /\ UNCHANGED <<clockVars, waapiVars, coordVars, injectVars>>

\* The page loads the engine (v2: window.TweenMax) with its own time scale.
PageLoadsTweenMax(r) ==
    /\ tweenMaxTL = Null
    /\ tweenMaxTL' = r
    /\ ev' = [op |-> "pageEngine"]
    /\ UNCHANGED <<gsapTL, originalGSAPTimeScale, firstScale>>
    /\ UNCHANGED <<clockVars, waapiVars, coordVars, injectVars>>

\* The page sets the reachable timeline's time scale itself.
PageSetsTimeScale(r) ==
    /\ DetectGSAP
    /\ TimeScale # r
    /\ WriteTimeScale(r)
    /\ ev' = [op |-> "pageEngine"]
    /\ UNCHANGED <<originalGSAPTimeScale, firstScale>>
    /\ UNCHANGED <<clockVars, waapiVars, coordVars, injectVars>>

\* The page removes the engine's globals: the timeline is no longer reachable.
PageRemovesEngine ==
    /\ DetectGSAP
    /\ gsapTL' = Null
    /\ tweenMaxTL' = Null
    /\ ev' = [op |-> "pageEngine"]
    /\ UNCHANGED <<originalGSAPTimeScale, firstScale>>
    /\ UNCHANGED <<clockVars, waapiVars, coordVars, injectVars>>

\* The module as loaded: no baseline; the engine not loaded yet.
InitGSAP ==
    /\ gsapTL = Null
    /\ tweenMaxTL = Null
    /\ originalGSAPTimeScale = Null
    /\ firstScale = Null

----------------------------------------------------------------------------
(* Installation of Layer 3 in one browsing context (inject.ts, main) *)

\* if (window !== window.top) return     (inject.ts and index.tsx alike)
NestedContext_Never == FALSE

NestedContext == ~isTop

\* if ((window as any).__slooowPatched) return
AlreadyPatched_Never == FALSE

AlreadyPatched == slooowPatched

\* main() of inject.ts, run in this browsing context (again, when the script
\* is executed again in a context it already patched).
InjectMain ==
    /\ IF NestedContext \/ AlreadyPatched
         THEN UNCHANGED <<clockVars, injectVars>>
         ELSE /\ slooowPatched' = TRUE
              /\ rafWraps' = rafWraps + 1
              /\ speedFactor' = One
              /\ lastRealTime' = Null
              /\ virtualTime' = Null
              /\ tokensMade' = tokensMade + 1
              /\ listeners' = listeners + 1
              /\ inbox' = Append(inbox, StatusReport)
              /\ reportsSent' = reportsSent + 1
              /\ sinceSet' = 3
              /\ seedReal' = Null
              /\ clamped' = FALSE
              /\ UNCHANGED <<now, delivered, pageKnowsToken, isTop>>
    /\ ev' = [op |-> "injectMain", nested |-> ~isTop, patchedBefore |-> slooowPatched,
              before |-> <<clockVars, injectVars>>]
    /\ UNCHANGED <<waapiVars, gsapVars, coordVars>>

\* Before main() of inject.ts ran in a browsing context.
InitNotInstalled ==
    /\ slooowPatched = FALSE
    /\ rafWraps = 0
    /\ listeners = 0
    /\ tokensMade = 0
    /\ reportsSent = 0

\* After main() of inject.ts ran once in the top frame.
InitInstalled ==
    /\ isTop = TRUE
    /\ slooowPatched = TRUE
    /\ rafWraps = 1
    /\ listeners = 1
    /\ tokensMade = 1
    /\ reportsSent = 1

----------------------------------------------------------------------------
(* The coordinator (index.tsx): applyAllLayers, polling, the watcher *)

\* const POLL_INTERVAL = 250
POLL_INTERVAL == 250

\* const MAX_WAIT = 5000
MAX_WAIT == 5000

\* What the session store can hold: disabled (Null), or enabled at a speed.
\*   stored?.enabled ? (stored.speed ?? 0.25) : null
StoredSpeeds == SLOOOW_SPEEDS \cup {Null}

\* const effectiveSpeed = speed ?? 1
EffectiveSpeed(speed) == IF speed = Null THEN One ELSE speed

\* applyAllLayers(speed), Layer 1: setObserverEnabled(false) after resetWAAPI(),
\* setObserverEnabled(true) after applyWAAPI(effectiveSpeed)
ObserverEnabledAfter_Sticky(speed) == TRUE

ObserverEnabledAfter(speed) == speed # Null

\* applyAllLayers(speed): Layer 1, Layer 2, Layer 3, in that order and
\* unconditionally (the writes; gsapDetected is DetectedAfterApply).
ApplyAllLayersEffect(speed) ==
    /\ IF speed = Null
         THEN ResetWAAPIEffect(liveAnims)
         ELSE ApplyWAAPIEffect(EffectiveSpeed(speed), liveAnims)
    /\ observerEnabled' = ObserverEnabledAfter(speed)
    /\ IF speed = Null
         THEN ResetGSAPEffect
         ELSE ApplyGSAPEffect(EffectiveSpeed(speed))
    /\ PostSetSpeed(EffectiveSpeed(speed))

\* applyAllLayers(speed), Layer 2: const applied = applyGSAP(effectiveSpeed);
\* if (applied && !gsapDetected) gsapDetected = true
DetectedAfterApply_Always(speed) == TRUE

DetectedAfterApply(speed) ==
    IF speed = Null THEN gsapDetected ELSE (gsapDetected \/ DetectGSAP)

\* main(ctx) of index.tsx, once per document.  In the top frame: currentSpeed
\* from the session store; gsapDetected = typeof window.gsap !== 'undefined';
\* startGSAPPolling unless detected (which reports at once, without a timer,
\* when detectGSAP() already holds, and then applies currentSpeed if enabled);
\* startWAAPIObserver; applyAllLayers(currentSpeed) if enabled; ui.mount(),
\* whose Toolbar reports its initial state through onSpeedChange, i.e.
\* applyAllLayers(enabled ? speed : null) once more.  The two applyAllLayers
\* of an enabled start do the same writes and post the same message; the
\* model posts it once.
ContentMain(stored) ==
    /\ ~toolbarMounted
    /\ IF NestedContext
         THEN UNCHANGED <<clockVars, waapiVars, gsapVars, coordVars>>
         ELSE /\ currentSpeed' = stored
              /\ ApplyAllLayersEffect(stored)
              /\ gsapDetected' = DetectGSAP
              /\ pollInterval' = ~DetectGSAP
              /\ elapsed' = 0
              /\ polls' = 0
              /\ startSpeed' = stored
              /\ observing' = TRUE
              /\ toolbarMounted' = TRUE
              /\ UNCHANGED <<pendingRAF, scheduledFlushes, liveAnims>>
              /\ UNCHANGED <<speedFactor, lastRealTime, virtualTime, now, delivered,
                             pageKnowsToken, sinceSet, seedReal, clamped>>
    /\ ev' = [op |-> "contentMain", nested |-> ~isTop, stored |-> stored,
              after |-> ev.op]
    /\ UNCHANGED injectVars

\* onSpeedChange of the Toolbar: the user enabled, disabled or picked a speed.
\*   currentSpeed = speed; applyAllLayers(speed)
SelectSpeed(speed) ==
    /\ toolbarMounted
    /\ speed # currentSpeed
    /\ Len(inbox) < MaxInbox
    /\ currentSpeed' = speed
    /\ ApplyAllLayersEffect(speed)
    /\ gsapDetected' = DetectedAfterApply(speed)
    /\ ev' = [op |-> "selectSpeed", speed |-> speed,
              reachable |-> GetGSAPTimeline # "null",
              gsapBefore |-> gsapVars,
              detectedBefore |-> gsapDetected,
              inboxBefore |-> inbox,
              speedBefore |-> currentSpeed,
              waapiBefore |-> waapiVars,
              tokenExposed |-> tokensMade > 0]
    /\ UNCHANGED <<speedFactor, lastRealTime, virtualTime, now, delivered,
                   pageKnowsToken, sinceSet, seedReal, clamped>>
    /\ UNCHANGED <<toolbarMounted, pendingRAF, scheduledFlushes, observing,
                   pollVars, liveAnims>>
    /\ UNCHANGED injectVars

\* else if (elapsed >= MAX_WAIT)
TimedOut_OnePollLate(e) == e > MAX_WAIT

TimedOut(e) == e >= MAX_WAIT

\* The speed the detection callback applies: if (currentSpeed !== null) applyGSAP(currentSpeed)
DetectedSpeed_AtStart == startSpeed

DetectedSpeed == currentSpeed

\* The setInterval callback of startGSAPPolling, run by the host POLL_INTERVAL
\* after the previous one while the timer is set.
PollTick ==
    /\ pollInterval
    /\ elapsed' = elapsed + POLL_INTERVAL
    /\ polls' = polls + 1
    /\ UNCHANGED startSpeed
    /\ IF DetectGSAP
         THEN /\ pollInterval' = FALSE
              /\ gsapDetected' = TRUE
              /\ IF currentSpeed # Null
                   THEN ApplyGSAPEffect(DetectedSpeed)
                   ELSE UNCHANGED gsapVars
         ELSE /\ pollInterval' = (~TimedOut(elapsed + POLL_INTERVAL))
              /\ UNCHANGED <<gsapDetected, gsapVars>>
    /\ ev' = [op |-> "poll", detected |-> DetectGSAP, speed |-> currentSpeed,
              gsapBefore |-> gsapVars]
    /\ UNCHANGED <<toolbarMounted, currentSpeed, observerVars>>
    /\ UNCHANGED <<clockVars, waapiVars, injectVars>>

\* () => currentSpeed ?? 1, the getSpeed handed to startWAAPIObserver
GetSpeed_One == One

GetSpeed == IF currentSpeed = Null THEN One ELSE currentSpeed

\* if (!observerEnabled) return
ObserverActive_Always == TRUE

ObserverActive == observerEnabled

\* if (pendingRAF) return
Coalesced_Never == FALSE

Coalesced == pendingRAF

\* The MutationObserver callback, for one batch of watched mutations.
ObserverCallback ==
    /\ observing
    /\ IF ObserverActive /\ ~Coalesced
         THEN /\ pendingRAF' = TRUE
              /\ scheduledFlushes' = scheduledFlushes + 1
         ELSE UNCHANGED <<pendingRAF, scheduledFlushes>>
    /\ ev' = [op |-> "mutation", enabled |-> observerEnabled,
              pendingBefore |-> pendingRAF, scheduledBefore |-> scheduledFlushes,
              waapiBefore |-> waapiVars]
    /\ UNCHANGED <<toolbarMounted, currentSpeed, gsapDetected, observing,
                   observerEnabled, pollVars>>
    /\ UNCHANGED <<clockVars, waapiVars, gsapVars, injectVars>>

\* if (_getSpeed && observerEnabled): _getSpeed is set once the observer started
FlushApplies_Always == TRUE

FlushApplies == observerEnabled

\* The frame callback the observer requested, run by the host at the next
\* rendering frame:
\*   pendingRAF = false; if (_getSpeed && observerEnabled) applyWAAPI(_getSpeed())
ObserverFlush ==
    /\ scheduledFlushes > 0
    /\ scheduledFlushes' = scheduledFlushes - 1
    /\ pendingRAF' = FALSE
    /\ IF FlushApplies
         THEN ApplyWAAPIEffect(GetSpeed, liveAnims)
         ELSE UNCHANGED <<playbackRate, originalRates, firstRate>>
    /\ ev' = [op |-> "flush", enabled |-> observerEnabled, speed |-> currentSpeed,
              fresh |-> {a \in liveAnims : originalRates[a] = Null},
              waapiBefore |-> waapiVars]
    /\ UNCHANGED <<toolbarMounted, currentSpeed, gsapDetected, observing,
                   observerEnabled, pollVars, liveAnims>>
    /\ UNCHANGED <<clockVars, gsapVars, injectVars>>

\* Before main(ctx) of index.tsx ran.
InitCoordinator ==
    /\ toolbarMounted = FALSE
    /\ currentSpeed = Null
    /\ gsapDetected = FALSE
    /\ observing = FALSE
    /\ observerEnabled = FALSE
    /\ pendingRAF = FALSE
    /\ scheduledFlushes = 0
    /\ pollInterval = FALSE
    /\ elapsed = 0
    /\ polls = 0
    /\ startSpeed = Null

----------------------------------------------------------------------------
(* Specifications *)

InitEv == ev = [op |-> "init"]

\* Layer 3 alone: frames, and messages from the bridge, the page and frames.
ClockInit == InitClock /\ InitWAAPI /\ InitGSAP /\ InitInstalled /\ InitCoordinator /\ InitEv /\ playbackRate = [a \in Anims |-> One]

ClockNext ==
    \/ \E d \in FrameDeltas : Frame(d)
    \/ HandleMessage
    \/ \E s \in SLOOOW_SPEEDS : SendSetSpeed(s)
    \/ PageReadsToken
    \/ \E tag \in {SLOOOW_TAG, "__slowmo__"}, token \in {"forgery", "", SESSION_TOKEN},
          type \in {"SET_SPEED", "SLOOOW_STATUS_REPORT"} :
            PagePostsMessage(tag, token, type, 5)
    \/ PagePostsNull
    \/ FramePostsMessage(SESSION_TOKEN, 5)

SpecClock == ClockInit /\ [][ClockNext]_vars

\* The coordinator over the three layers: the user's speed changes, message
\* dispatch, engine polling, and a page that loads the engine late and forges
\* messages.  The content script starts (document_idle) after inject.ts ran
\* (document_start).
CoordInit ==
    /\ InitClock /\ InitWAAPI /\ InitGSAP /\ InitInstalled /\ InitCoordinator /\ InitEv
    /\ playbackRate = [a \in Anims |-> IF a = "a1" THEN 20 ELSE 40]

CoordNext ==
    \/ \E st \in StoredSpeeds : ContentMain(st)
    \/ \E s \in StoredSpeeds : SelectSpeed(s)
    \/ HandleMessage
    \/ PollTick
    \/ PageReadsToken
    \/ PagePostsMessage(SLOOOW_TAG, SESSION_TOKEN, "SET_SPEED", 5)
    \/ \E r \in PageScales : ~DetectGSAP /\ PageLoadsGSAP(r)
    \/ \E r \in PageScales : ~DetectGSAP /\ PageLoadsTweenMax(r)

SpecCoord == CoordInit /\ [][CoordNext]_vars

\* The watcher of Layer 1 under the coordinator: watched mutations, rendering
\* frames, animations that start and end, and the user's speed changes.
ObserverInit ==
    /\ InitClock /\ InitWAAPI /\ InitGSAP /\ InitInstalled /\ InitCoordinator /\ InitEv
    /\ playbackRate = [a \in Anims |-> IF a = "a1" THEN 20 ELSE 40]

ObserverNext ==
    \/ \E st \in StoredSpeeds : ContentMain(st)
    \/ \E s \in StoredSpeeds : SelectSpeed(s)
    \/ HandleMessage
    \/ ObserverCallback
    \/ ObserverFlush
    \/ \E a \in Anims : PageTogglesAnimation(a)

SpecObserver == ObserverInit /\ [][ObserverNext]_vars

\* One browsing context, top or nested, from before either script ran.  The
\* content script may find that inject.ts has not run in its window (the
\* MAIN-world script was blocked, or runs late): it starts all the same.
InstallInit ==
    /\ speedFactor = One /\ lastRealTime = Null /\ virtualTime = Null
    /\ inbox = <<>> /\ now = 0 /\ delivered = Null /\ pageKnowsToken = FALSE
    /\ sinceSet = 3 /\ seedReal = Null /\ clamped = FALSE
    /\ InitWAAPI /\ InitGSAP /\ InitNotInstalled /\ InitCoordinator /\ InitEv
    /\ isTop \in BOOLEAN
    /\ playbackRate = [a \in Anims |-> IF a = "a1" THEN 20 ELSE 40]

InstallNext ==
    \/ InjectMain
    \/ \E st \in StoredSpeeds : ContentMain(st)
    \/ \E s \in StoredSpeeds : SelectSpeed(s)
    \/ listeners > 0 /\ HandleMessage
    \/ DropMessage
    \/ \E r \in PageScales : ~DetectGSAP /\ PageLoadsGSAP(r)

SpecInstall == InstallInit /\ [][InstallNext]_vars

\* Layer 1 alone: apply and reset, and the page changing rates and animations.
WAAPIInit == InitClock /\ InitWAAPI /\ InitGSAP /\ InitInstalled /\ InitCoordinator /\ InitEv

WAAPINext ==
    \/ \E s \in SLOOOW_SPEEDS, t \in SUBSET Anims : ApplyWAAPIList(s, t)
    \/ \E s \in SLOOOW_SPEEDS : ApplyWAAPIDocument(s)
    \/ \E t \in SUBSET Anims : ResetWAAPIList(t)
    \/ ResetWAAPIDocument
    \/ \E a \in Anims, r \in PageRates : PageSetsRate(a, r)
    \/ \E a \in Anims : PageTogglesAnimation(a)

SpecWAAPI == WAAPIInit /\ [][WAAPINext]_vars

\* Layer 2 alone: apply and reset, and the page loading and changing the engine.
GSAPInit == InitClock /\ InitWAAPI /\ InitGSAP /\ InitInstalled /\ InitCoordinator /\ InitEv /\ playbackRate = [a \in Anims |-> One]

GSAPNext ==
    \/ \E s \in SLOOOW_SPEEDS : ApplyGSAP(s)
    \/ ResetGSAP
    \/ \E r \in PageScales : PageLoadsGSAP(r)
    \/ \E r \in PageScales : PageLoadsTweenMax(r)
    \/ \E r \in PageScales : PageSetsTimeScale(r)
    \/ PageRemovesEngine

SpecGSAP == GSAPInit /\ [][GSAPNext]_vars

----------------------------------------------------------------------------
(* Properties of Layer 3 (SpecClock) *)

\* C1: with speedFactor = s # 1 and the anchors seeded, a frame whose real
\* delta d is at most MAX_DELTA advances the delivered timestamp by exactly
\* s * d; and as long as no frame since the seed exceeded MAX_DELTA, the
\* virtual time gained since the seed is s times the real time elapsed since
\* the seed, and is what the callback was handed.
C1_ScaledAdvance ==
    /\ (ev.op = "frame" /\ ev.path = "scaled" /\ ev.d <= MAX_DELTA)
          => (ev.hadPrev /\ ev.vdelta = ev.speed * ev.d)
    /\ (lastRealTime # Null /\ ~clamped)
          => /\ virtualTime - seedReal * Den = speedFactor * (lastRealTime - seedReal)
             /\ delivered = virtualTime

\* Two scaled frames after a seed, 50 ms and 100 ms at 0.25: the second
\* advances by 25 ms, 37.5 ms in all.
C1_Witness ==
    /\ ev.op = "frame" /\ ev.path = "scaled"
    /\ ev.speed = 5 /\ ev.d = 100 /\ ev.vdelta = 25 * Den
    /\ ~clamped
    /\ lastRealTime - seedReal = 150
    /\ 2 * (virtualTime - seedReal * Den) = 75 * Den

\* C2: the message listener changes speedFactor, lastRealTime or virtualTime
\* only when the message it handles comes from the same window, has the tag,
\* carries exactly the session token and is a SET_SPEED; any other message
\* leaves all three (and so every later delivered timestamp) as they were.
C2_OnlyAuthenticSetSpeed ==
    [][(inbox # <<>> /\ inbox' = Tail(inbox))
         => \/ ( /\ Head(inbox).source = "window"
                 /\ Head(inbox).data
                 /\ Head(inbox).tag = "__slooow__"
                 /\ Head(inbox).token = SESSION_TOKEN
                 /\ Head(inbox).type = "SET_SPEED" )
            \/ ( /\ speedFactor' = speedFactor
                 /\ lastRealTime' = lastRealTime
                 /\ virtualTime' = virtualTime
                 /\ delivered' = delivered )]_vars

\* A same-window SET_SPEED with the right tag and a wrong token was handled
\* while a slowed clock was running, and nothing changed.
C2_Witness ==
    /\ ev.op = "msg"
    /\ ev.msg.source = "window" /\ ev.msg.tag = SLOOOW_TAG
    /\ ev.msg.type = "SET_SPEED" /\ ev.msg.token = "forgery"
    /\ ev.msg.speed # speedFactor
    /\ speedFactor = ev.speedBefore
    /\ lastRealTime # Null

\* C3: handling a message that the hosted page's own script posted never
\* changes speedFactor.
C3_PageCannotChangeSpeed ==
    [][(inbox # <<>> /\ inbox' = Tail(inbox) /\ Head(inbox).origin = "page")
         => speedFactor' = speedFactor]_vars

\* C4: the first frame delivered after an accepted SET_SPEED shows the
\* callback no jump: the delivered timestamp does not run ahead of the
\* previous delivered timestamp by more than the real time that elapsed
\* between the two frames.  (The claim's "virtual delta of 0" asks for more,
\* an advance of exactly 0, and fails wherever this does.)
C4_NoJumpAfterSetSpeed ==
    (ev.op = "frame" /\ sinceSet = 1 /\ ev.hadPrev) => ev.vdelta <= ev.d * Den

\* C5: a frame handled while speedFactor is 1 hands the callback exactly the
\* real timestamp, whatever the real delta and whatever ran before.
C5_PassThrough ==
    (ev.op = "frame" /\ ev.speed = One) => delivered = now * Den

\* A pass-through frame 150 ms after the previous one, right after a slowed
\* period: the delivered timestamp rose by more than the 150 ms, back to real time.
C5_Witness ==
    /\ ev.op = "frame" /\ ev.speed = One /\ ev.d = 150
    /\ ev.hadPrev /\ ev.vdelta > 150 * Den
    /\ delivered = now * Den

\* C6: with speedFactor = s # 1 and the anchors seeded, no frame advances the
\* delivered timestamp by more than MAX_DELTA * s, and a frame whose real
\* delta exceeds MAX_DELTA advances it by exactly MAX_DELTA * s.
C6_DeltaClamp ==
    (ev.op = "frame" /\ ev.path = "scaled")
       => /\ ev.vdelta <= MAX_DELTA * ev.speed
          /\ (ev.d > MAX_DELTA => ev.vdelta = MAX_DELTA * ev.speed)

\* A 150 ms gap at 0.25 advanced the delivered timestamp by 25 ms.
C6_Witness ==
    /\ ev.op = "frame" /\ ev.path = "scaled"
    /\ ev.d = 150 /\ ev.speed = 5 /\ ev.vdelta = 25 * Den

----------------------------------------------------------------------------
(* Properties of Layer 1 (SpecWAAPI) *)

\* C7: an entry of originalRates always holds the rate its animation had when
\* the entry was made, whatever applies and external rate changes followed; and
\* every applyWAAPI(f) leaves each target at that first rate times f.
C7_BaselineCapturedOnce ==
    /\ \A a \in Anims : originalRates[a] # Null => originalRates[a] = firstRate[a]
    /\ ev.op = "applyWAAPI"
          => \A a \in ev.targets : playbackRate[a] * Den = firstRate[a] * ev.speed

\* An animation first met at rate 2, set to 3 by the page since, and applied
\* again at 0.5: its rate is 1.
C7_Witness ==
    /\ ev.op = "applyWAAPI" /\ ev.speed = 10
    /\ \E a \in ev.targets \ ev.fresh :
          /\ firstRate[a] = 40
          /\ ev.rateBefore[a] = 60
          /\ playbackRate[a] = 20

\* C8: resetWAAPI puts every target that had an entry back at the rate it had
\* when the entry was made, and removes the entry.
C8_ResetRoundTrip ==
    ev.op = "resetWAAPI"
       => \A a \in ev.tracked : /\ playbackRate[a] = ev.first[a]
                                /\ originalRates[a] = Null

\* An animation first met at rate 2 and slowed to 0.5 is back at 2, untracked.
C8_Witness ==
    /\ ev.op = "resetWAAPI"
    /\ \E a \in ev.tracked :
          /\ ev.first[a] = 40
          /\ ev.rateBefore[a] = 10
          /\ playbackRate[a] = 40
          /\ originalRates[a] = Null

\* C9: resetWAAPI leaves a target that has no entry as it was: same rate,
\* still no entry.
C9_ResetUntrackedNoOp ==
    ev.op = "resetWAAPI"
       => \A a \in ev.targets \ ev.tracked : /\ playbackRate[a] = ev.rateBefore[a]
                                             /\ originalRates[a] = Null
                                             /\ firstRate[a] = Null

\* A reset over two targets, one tracked and one not: the untracked one keeps
\* its rate of 2.
C9_Witness ==
    /\ ev.op = "resetWAAPI"
    /\ ev.tracked # {}
    /\ \E a \in ev.targets \ ev.tracked : playbackRate[a] = 40

----------------------------------------------------------------------------
(* Properties of Layer 2 (SpecGSAP) *)

\* C10: while originalGSAPTimeScale is set it is the time scale the reachable
\* timeline had at the apply that set it, and every applyGSAP(f) that finds a
\* timeline leaves its time scale at that baseline times f.
C10_EngineBaselineOnce ==
    /\ originalGSAPTimeScale # Null => originalGSAPTimeScale = firstScale
    /\ (ev.op = "applyGSAP" /\ ev.result) => TimeScale * Den = firstScale * ev.speed

\* Baseline 2, already slowed to 0.25 (time scale 0.5), applied again at 0.5:
\* the time scale is 1.
C10_Witness ==
    /\ ev.op = "applyGSAP" /\ ev.result /\ ~ev.fresh
    /\ firstScale = 40 /\ ev.scaleBefore = 10 /\ ev.speed = 10
    /\ TimeScale = 20

\* C11: resetGSAP with a baseline captured and the timeline reachable sets
\* the reachable timeline's time scale to the captured baseline and clears the
\* baseline; with no baseline captured it changes nothing.
C11_EngineReset ==
    ev.op = "resetGSAP"
       => /\ (ev.had /\ ev.reachable)
                => /\ TimeScale = ev.first
                   /\ originalGSAPTimeScale = Null
          /\ ~ev.had
                => /\ <<gsapTL, tweenMaxTL>> = ev.scaleBefore
                   /\ originalGSAPTimeScale = Null

\* Baseline 2, slowed to 0.5 (time scale 1), then reset: the time scale is 2
\* again and no baseline is held.
C11_Witness ==
    /\ ev.op = "resetGSAP" /\ ev.had /\ ev.reachable
    /\ ev.first = 40
    /\ ev.scaleBefore \in {<<20, Null>>, <<Null, 20>>}
    /\ TimeScale = 40
    /\ originalGSAPTimeScale = Null

----------------------------------------------------------------------------
(* Properties of the coordinator (SpecCoord) *)

\* C12: a speed change to Speed(f) made while no timeline is reachable under
\* either binding leaves Layer 2 untouched (applyGSAP returned false: no
\* baseline, no write, gsapDetected as it was), and still puts every
\* enumerated animation at its baseline times f, enables the watcher, and
\* posts SET_SPEED(f) to Layer 3, all in that one change.
C12_InapplicableEngine ==
    (ev.op = "selectSpeed" /\ ev.speed # Null /\ ~ev.reachable)
       => /\ gsapVars = ev.gsapBefore
          /\ originalGSAPTimeScale = Null
          /\ gsapDetected = ev.detectedBefore
          /\ \A a \in liveAnims : playbackRate[a] * Den = firstRate[a] * ev.speed
          /\ observerEnabled
          /\ inbox = Append(ev.inboxBefore,
                 Msg("window", TRUE, SLOOOW_TAG, SESSION_TOKEN, "SET_SPEED",
                     ev.speed, "bridge"))

\* 0.5 picked on a page without the engine: the animation of rate 2 runs at 1,
\* the message is posted, Layer 2 holds nothing.
C12_Witness ==
    /\ ev.op = "selectSpeed" /\ ev.speed = 10 /\ ~ev.reachable
    /\ ~gsapDetected /\ originalGSAPTimeScale = Null /\ gsapTL = Null /\ tweenMaxTL = Null
    /\ playbackRate["a2"] = 20 /\ originalRates["a2"] = 40
    /\ inbox # <<>> /\ inbox[Len(inbox)].speed = 10 /\ inbox[Len(inbox)].origin = "bridge"

\* C13: whenever the coordinator is enabled at Speed(f) and every SET_SPEED it
\* forwarded has been delivered, the three layers agree on f: speedFactor is
\* f, every enumerated animation runs at its baseline times f, and a detected
\* engine's time scale is its baseline times f.
C13_CrossLayerConsistency ==
    ( /\ toolbarMounted
      /\ currentSpeed # Null
      /\ \A i \in 1..Len(inbox) : inbox[i].origin # "bridge" )
       => /\ speedFactor = currentSpeed
          /\ \A a \in liveAnims :
                /\ originalRates[a] # Null
                /\ playbackRate[a] * Den = firstRate[a] * currentSpeed
          /\ (gsapDetected /\ DetectGSAP)
                => /\ originalGSAPTimeScale # Null
                   /\ TimeScale * Den = firstScale * currentSpeed

----------------------------------------------------------------------------
(* Properties of the installation (SpecInstall) *)

\* C14: running main() of inject.ts again in a context it already patched
\* changes nothing: requestAnimationFrame carries one wrapper, one message
\* listener is installed, one token was generated, one status report was
\* posted, and the clock's state is what it was before the second run.
C14_IdempotentInstall ==
    /\ rafWraps <= 1 /\ listeners <= 1 /\ tokensMade <= 1 /\ reportsSent <= 1
    /\ (ev.op = "injectMain" /\ ev.patchedBefore)
          => <<clockVars, injectVars>> = ev.before

\* A second run in the patched top frame, after the speed had been set to a
\* slow-down: still one wrapper, one listener, one token, one report, and the
\* speed was not put back to 1.
C14_Witness ==
    /\ ev.op = "injectMain" /\ ev.patchedBefore
    /\ rafWraps = 1 /\ listeners = 1 /\ tokensMade = 1 /\ reportsSent = 1
    /\ speedFactor # One

\* C15: in a nested browsing context neither script installs anything: no
\* wrapper, marker, token, listener or status report from inject.ts; no
\* toolbar, watcher, polling timer, baseline or message from the coordinator;
\* so a page carries at most the top frame's one virtual clock.
C15_ScopeGuard ==
    /\ ~isTop
          => /\ ~slooowPatched /\ rafWraps = 0 /\ tokensMade = 0
             /\ listeners = 0 /\ reportsSent = 0
             /\ ~toolbarMounted /\ ~observing /\ ~observerEnabled /\ ~pollInterval
             /\ currentSpeed = Null
             /\ \A a \in Anims : originalRates[a] = Null
             /\ originalGSAPTimeScale = Null
             /\ inbox = <<>>
    /\ rafWraps <= 1

\* Both scripts ran in a nested context, inject.ts first, and nothing is installed.
C15_Witness ==
    /\ ~isTop
    /\ ev.op = "contentMain" /\ ev.nested /\ ev.after = "injectMain"
    /\ ev.stored # Null
    /\ rafWraps = 0 /\ ~toolbarMounted

----------------------------------------------------------------------------
(* Properties of engine polling (SpecCoord) *)

\* C16: the polling timer runs detectGSAP() once per POLL_INTERVAL and is
\* cleared by the poll that finds the engine or, failing that, by the poll at
\* which MAX_WAIT has elapsed: while the timer is set less than MAX_WAIT has
\* elapsed, so no execution has more than MAX_WAIT / POLL_INTERVAL = 20 polls,
\* whether or not the engine ever appears.
C16_BoundedPolling ==
    /\ elapsed = polls * POLL_INTERVAL
    /\ polls * POLL_INTERVAL <= MAX_WAIT
    /\ pollInterval => elapsed < MAX_WAIT
    /\ (ev.op = "poll" /\ (ev.detected \/ elapsed >= MAX_WAIT)) => ~pollInterval

\* The engine never appeared: the twentieth poll cleared the timer.
C16_Witness ==
    /\ ev.op = "poll" /\ ~ev.detected
    /\ polls = 20 /\ elapsed = MAX_WAIT
    /\ ~pollInterval /\ ~gsapDetected

\* C17: the poll that finds the engine applies the speed that is current at
\* that poll: if the coordinator is then at Speed(f) the engine's time scale
\* is its baseline times f right after the poll; if it is then disabled the
\* poll leaves the engine untouched and captures no baseline.
C17_DetectionAppliesCurrentSpeed ==
    (ev.op = "poll" /\ ev.detected)
       => /\ currentSpeed = ev.speed
          /\ gsapDetected
          /\ ev.speed # Null
                => /\ originalGSAPTimeScale = firstScale
                   /\ firstScale # Null
                   /\ TimeScale * Den = firstScale * currentSpeed
          /\ ev.speed = Null
                => /\ gsapVars = ev.gsapBefore
                   /\ originalGSAPTimeScale = Null

\* Polling started at 0.5; the user moved to 0.25; the engine then loaded
\* with time scale 2 and the next poll put it at 0.5 = 2 * 0.25.
C17_Witness ==
    /\ ev.op = "poll" /\ ev.detected
    /\ startSpeed = 10 /\ currentSpeed = 5
    /\ ev.gsapBefore[3] = Null
    /\ firstScale = 40 /\ TimeScale = 10

----------------------------------------------------------------------------
(* Properties of the watcher (SpecObserver) *)

\* C18: while the watcher is enabled a watched mutation always leaves a frame
\* callback pending, and when that callback runs at the next rendering frame
\* still enabled, every animation enumerated then, the ones that appeared
\* since the last apply included, has an entry and runs at its baseline times
\* the speed current at that frame.
C18_DynamicDiscovery ==
    /\ (ev.op = "mutation" /\ ev.enabled) => (pendingRAF /\ scheduledFlushes >= 1)
    /\ (ev.op = "flush" /\ ev.enabled)
          => /\ currentSpeed # Null
             /\ \A a \in liveAnims :
                   /\ originalRates[a] # Null
                   /\ playbackRate[a] * Den = firstRate[a] * currentSpeed

\* An animation of rate 2 that appeared while enabled at 0.25 runs at 0.5
\* after the flush, next to one that was already scaled.
C18_Witness ==
    /\ ev.op = "flush" /\ ev.enabled /\ currentSpeed = 5
    /\ ev.fresh = {"a2"} /\ liveAnims = Anims
    /\ ev.waapiBefore[1]["a2"] = 40 /\ playbackRate["a2"] = 10
    /\ originalRates["a2"] = 40

\* C19: however many watched mutations arrive, at most one frame callback of
\* the watcher is pending, pendingRAF says whether one is, and the callback
\* clears it when it runs, so that a later mutation schedules a new one.
C19_Coalescing ==
    /\ scheduledFlushes <= 1
    /\ pendingRAF <=> scheduledFlushes = 1
    /\ ev.op = "flush" => (~pendingRAF /\ scheduledFlushes = 0)

\* A second batch of mutations arrived while a callback was pending: still one.
C19_Witness ==
    /\ ev.op = "mutation" /\ ev.enabled /\ ev.pendingBefore
    /\ ev.scheduledBefore = 1 /\ scheduledFlushes = 1 /\ pendingRAF

\* C20: a watched mutation that arrives while the watcher is disabled
\* schedules no frame callback and changes no rate and no entry.
C20_DisabledWatcherIdle ==
    (ev.op = "mutation" /\ ~ev.enabled)
       => /\ pendingRAF = ev.pendingBefore
          /\ scheduledFlushes = ev.scheduledBefore
          /\ waapiVars = ev.waapiBefore

\* The coordinator is disabled and Layer 3 has taken its SET_SPEED(1); a
\* mutation arrives with untracked animations enumerated: nothing is
\* scheduled, nothing is tracked, every rate is the page's own.
C20_Witness ==
    /\ ev.op = "mutation" /\ ~ev.enabled
    /\ toolbarMounted /\ currentSpeed = Null
    /\ ~pendingRAF /\ scheduledFlushes = 0
    /\ liveAnims = Anims
    /\ \A a \in Anims : originalRates[a] = Null
    /\ playbackRate = [a \in Anims |-> IF a = "a1" THEN 20 ELSE 40]
    /\ speedFactor = One /\ sinceSet = 0

----------------------------------------------------------------------------
(* Further properties of Layer 3 (SpecClock) *)

\* C23: the timestamps handed to callbacks never decrease, whatever frames
\* and accepted speed changes (to speeds in (0, 1]) interleave; and a frame on
\* seeded anchors with a positive real delta hands over a strictly larger one.
C23_Monotonic ==
    ev.op = "frame"
       => /\ ev.hadPrev => ev.vdelta >= 0
          /\ (ev.path = "scaled" /\ ev.d > 0) => (ev.hadPrev /\ ev.vdelta > 0)

\* A frame that re-seeds the anchors after a speed change, following slowed
\* frames whose virtual time lagged real time: the delivered timestamp rose.
C23_Witness ==
    /\ ev.op = "frame" /\ ev.path = "seed" /\ ev.hadPrev
    /\ sinceSet = 1 /\ ev.d > 0 /\ ev.vdelta > ev.d * Den

C29_NeverAheadOfReal ==
    ev.op = "frame"
       => /\ delivered <= now * Den
          /\ ev.path \in {"pass", "seed"} => delivered = now * Den

\* Seeded at 0.5, two frames of 50 ms: the callback is handed 50 ms less a
\* half, strictly behind the real timestamp.
C29_Witness ==
    /\ ev.op = "frame" /\ ev.path = "scaled" /\ ev.speed = 10
    /\ lastRealTime - seedReal = 100 /\ ~clamped
    /\ now * Den - delivered = 50 * Den

\* C30: a callback run in the same host frame as the previous one (same real
\* timestamp, no message dispatched in between) is handed the same timestamp,
\* and the clock's anchors do not move again.
C30_OneClockPerFrame ==
    (ev.op = "frame" /\ ev.d = 0)
       => /\ ev.hadPrev /\ ev.vdelta = 0
          /\ virtualTime = ev.anchorsBefore[2]
          /\ lastRealTime = ev.anchorsBefore[1]

\* A second callback in a frame of a slowed, seeded clock that had advanced.
C30_Witness ==
    /\ ev.op = "frame" /\ ev.d = 0 /\ ev.path = "scaled"
    /\ ev.speed = 5 /\ ev.vdelta = 0
    /\ virtualTime > seedReal * Den

----------------------------------------------------------------------------
(* Further properties of Layer 2 (SpecGSAP) *)

----------------------------------------------------------------------------
(* Further properties of the watcher (SpecObserver) *)

\* C21: in every state, whatever enables, disables and speed changes came
\* before, the watcher is enabled exactly when the coordinator is at a
\* Speed(f), and disabled exactly when it is disabled.
C21_WatcherLockstep ==
    observerEnabled <=> currentSpeed # Null

\* Enabled at 0.5, then disabled: the watcher went off with it.
C21_Witness ==
    /\ ev.op = "selectSpeed" /\ ev.speedBefore = 10 /\ ev.speed = Null
    /\ currentSpeed = Null /\ ~observerEnabled /\ observing

\* C26: whenever the coordinator is disabled no animation object has an
\* entry in originalRates and every animation runs at the page's own rate,
\* the objects that were not enumerated when the reset ran included.
C26_DisabledLeavesNothingTracked ==
    (toolbarMounted /\ currentSpeed = Null)
       => /\ \A a \in Anims : originalRates[a] = Null
          /\ playbackRate = [a \in Anims |-> IF a = "a1" THEN 20 ELSE 40]

\* C27: a frame callback of the watcher that runs after the watcher was
\* disabled changes no rate and no entry, and clears pendingRAF.
C27_FlushAfterDisable ==
    (ev.op = "flush" /\ ~ev.enabled)
       => /\ waapiVars = ev.waapiBefore
          /\ ~pendingRAF

\* A flush scheduled while enabled runs after the disable, with both
\* animations enumerated and restored: they stay untracked at their own rates.
C27_Witness ==
    /\ ev.op = "flush" /\ ~ev.enabled /\ currentSpeed = Null
    /\ liveAnims = Anims
    /\ \A a \in Anims : originalRates[a] = Null
    /\ playbackRate["a2"] = 40
    /\ ~pendingRAF /\ scheduledFlushes = 0

----------------------------------------------------------------------------
(* The coordinator without the Scheduler (SpecInstall) *)

\* C22: while inject.ts has exposed no token, a speed change posts its
\* SET_SPEED with the empty token and still applies (or resets) Layers 1 and
\* 2 as always; no virtual clock is affected: speedFactor stays 1 with the
\* anchors unset, and a SET_SPEED carrying the empty token is rejected by the
\* listener if one is installed by the time it is dispatched.
C22_MissingScheduler ==
    /\ (ev.op = "selectSpeed" /\ ~ev.tokenExposed)
          => /\ inbox # <<>>
             /\ inbox[Len(inbox)].token = ""
             /\ inbox[Len(inbox)].speed = EffectiveSpeed(ev.speed)
             /\ ev.speed # Null
                   => /\ \A a \in liveAnims :
                            playbackRate[a] * Den = firstRate[a] * ev.speed
                      /\ ev.reachable => TimeScale * Den = firstScale * ev.speed
             /\ ev.speed = Null
                   => /\ \A a \in liveAnims : originalRates[a] = Null
                      /\ originalGSAPTimeScale = Null
                      /\ ev.reachable => TimeScale \in PageScales
    /\ (ev.op = "msg" /\ ev.msg.origin = "bridge" /\ ev.msg.token = "")
          => (~ev.set /\ speedFactor = ev.speedBefore)
    /\ tokensMade = 0
          => (speedFactor = One /\ lastRealTime = Null /\ virtualTime = Null)

\* No Scheduler in the window: 0.25 is picked after an earlier message went
\* unhandled; the animation of rate 2 runs at 0.5, the engine loaded at 1
\* runs at 0.25, the message carries the empty token, speedFactor is 1.
C22_Witness ==
    /\ ev.op = "selectSpeed" /\ ~ev.tokenExposed /\ ev.speed = 5
    /\ listeners = 0 /\ tokensMade = 0
    /\ ev.inboxBefore = <<>>
    /\ inbox[Len(inbox)].token = ""
    /\ playbackRate["a2"] = 10
    /\ ev.reachable /\ firstScale = 20 /\ TimeScale = 5
    /\ speedFactor = One

----------------------------------------------------------------------------
(* Further properties of the coordinator (SpecCoord) *)

\* C28: whenever no SET_SPEED forwarded by the coordinator is undelivered,
\* speedFactor is the effective speed of the last selection: f for Speed(f),
\* 1 for disabled.
C28_LastSelectionWins ==
    (\A i \in 1..Len(inbox) : inbox[i].origin # "bridge")
       => speedFactor = EffectiveSpeed(currentSpeed)

====
